---- MODULE Spec2Model ----
(***************************************************************************)
(* Model of reyoung/poly: the registry of polymorphic interfaces           *)
(* (RegisterInterface, RegisterStruct) and the two reflective traversals   *)
(* BeforeMarshalJSON and BeforeUnmarshalJSON, together with the callers'   *)
(* json.Marshal / json.Unmarshal steps and tidwall/gjson path queries.     *)
(*                                                                         *)
(* Go values are trees [t, s, c]: t names the static type, s is the        *)
(* scalar payload (numbers are kept in their decimal spelling), c are the  *)
(* children (struct fields, slice/array elements, or the zero-or-one       *)
(* value held by a pointer or an interface).                               *)
(***************************************************************************)
EXTENDS Integers, Sequences, FiniteSets, TLC

VARIABLES types, op, arg, strict, err, root, buf, orig, queried

vars == <<types, op, arg, strict, err, root, buf, orig, queried>>

(***************************************************************************)
(* Bounds                                                                  *)
(***************************************************************************)
\* Total number of bindings RegisterStruct may append over a whole run.
MaxBindings == 2

\* Depth of the path prefix at which the goroutine stack of a decode
\* traversal that keeps recursing is taken to be exhausted.
MaxStack == 6

(***************************************************************************)
(* The Go types of the callers (reflect.Type): kind, package path, name,   *)
(* method set, element type and struct fields with their json tags.        *)
(* A tag is the list of its comma-separated parts; <<>> is "no json tag".  *)
(***************************************************************************)
Fld(n, tg, ty) == [name |-> n, tag |-> tg, type |-> ty]

\* Two function-local interface types of the test file share package path
\* and name; Sized is an interface with a method no test struct provides.
InterfaceTypes == {"Shape", "AnotherShape#marshal", "AnotherShape#unmarshal", "Sized"}

StructTypes ==
    {"Circle", "Rect", "CircleWithoutType", "Num", "Group",
     "Request", "RequestWithSlice", "NestedRequest", "NestedRequest.Data",
     "Mixed", "RequestWithArray", "DeepRequest", "DeepRequest.Data", "Holder"}

\* Types a pointer type of the model can point to.
PointeeTypes == StructTypes \cup InterfaceTypes \cup {"string"}

PointerTo(t) == IF t \in PointeeTypes THEN "*" \o t ELSE "invalid"

PointerTypes == {PointerTo(t) : t \in PointeeTypes}

Kind(t) ==
    CASE t \in InterfaceTypes -> "interface"
      [] t \in StructTypes -> "struct"
      [] t \in {"[]Shape"} -> "slice"
      [] t \in {"[2]Shape"} -> "array"
      [] t \in PointerTypes -> "ptr"
      [] OTHER -> t

Elem(t) ==
    CASE t \in {"[]Shape", "[2]Shape"} -> "Shape"
      [] t \in PointerTypes -> CHOOSE e \in PointeeTypes : PointerTo(e) = t
      [] OTHER -> "invalid"

ArrayLen(t) == IF t = "[2]Shape" THEN 2 ELSE 0

PkgPath(t) == IF t \in InterfaceTypes \cup StructTypes THEN "poly" ELSE ""

Name(t) ==
    CASE t \in {"AnotherShape#marshal", "AnotherShape#unmarshal"} -> "AnotherShape"
      [] t \in {"NestedRequest.Data", "DeepRequest.Data"} -> ""
      [] t \in InterfaceTypes \cup StructTypes -> t
      [] OTHER -> ""

\* Methods an interface type requires.
Methods(t) == IF t = "Sized" THEN {"Size"} ELSE {}

\* Methods in the method set of a type (no test struct declares any).
MethodSet(t) == {}

Implements(t, iface) == Methods(iface) \subseteq MethodSet(t)

Fields(t) ==
    CASE t = "Circle" ->
           <<Fld("Type", <<"type">>, "string"), Fld("Radius", <<"radius">>, "float64")>>
      [] t = "Rect" ->
           <<Fld("Type", <<"type">>, "string"), Fld("Width", <<"width">>, "float64"),
             Fld("Height", <<"height">>, "float64")>>
      [] t = "CircleWithoutType" ->
           <<Fld("Radius", <<"radius">>, "float64")>>
      [] t = "Num" ->
           <<Fld("Radius", <<"radius">>, "float64"), Fld("Type", <<"type", "omitempty">>, "int")>>
      [] t = "Group" ->
           <<Fld("Type", <<"type">>, "string"), Fld("Inner", <<"inner">>, "Shape")>>
      [] t = "Request" ->
           <<Fld("Shape", <<"shape">>, "Shape")>>
      [] t = "RequestWithSlice" ->
           <<Fld("Shapes", <<"shapes">>, "[]Shape")>>
      [] t = "NestedRequest" ->
           <<Fld("Data", <<"data">>, "NestedRequest.Data")>>
      [] t = "NestedRequest.Data" ->
           <<Fld("Shape", <<"shape">>, "Shape")>>
      [] t = "Mixed" ->
           <<Fld("Other", <<"other">>, "AnotherShape#marshal"),
             Fld("Shape", <<"shape">>, "Shape")>>
      [] t = "RequestWithArray" ->
           <<Fld("Shapes", <<"shapes">>, "[]Shape"), Fld("Fixed", <<"fixed">>, "[2]Shape")>>
      [] t = "DeepRequest" ->
           <<Fld("Data", <<"data">>, "DeepRequest.Data")>>
      [] t = "DeepRequest.Data" ->
           <<Fld("Shapes", <<"shapes">>, "[]Shape"), Fld("Shape", <<"shape">>, "Shape")>>
      [] t = "Holder" ->
           <<Fld("Inner", <<"inner">>, "*Request")>>
      [] OTHER -> <<>>

NumField(t) == Len(Fields(t))

(***************************************************************************)
(* Go values (reflect.Value)                                               *)
(***************************************************************************)
V(t, s, c) == [t |-> t, s |-> s, c |-> c]

\* The zero reflect.Value (Kind() == Invalid): what Elem() of a nil pointer
\* or of a nil interface returns.
Invalid == V("invalid", "", <<>>)

StrV(s) == V("string", s, <<>>)
IntV(s) == V("int", s, <<>>)
FloatV(s) == V("float64", s, <<>>)
\* A nil `any`: reflect.TypeOf gives nil for it.
NilAny == V("nil", "", <<>>)

ZeroScalar(t) == IF t = "string" THEN "" ELSE "0"

RECURSIVE Zero(_)
\* reflect.New(t).Elem(): the zero value of type t.
Zero(t) ==
    CASE Kind(t) = "struct" ->
           V(t, "", [i \in 1..NumField(t) |-> Zero(Fields(t)[i].type)])
      [] Kind(t) = "array" ->
           V(t, "", [i \in 1..ArrayLen(t) |-> Zero(Elem(t))])
      [] Kind(t) \in {"interface", "ptr", "slice"} -> V(t, "", <<>>)
      [] OTHER -> V(t, ZeroScalar(t), <<>>)

\* val.Elem() of a pointer or interface value.
ElemOf(val) == IF val.c = <<>> THEN Invalid ELSE val.c[1]

\* &x
AddrOf(x) == V(PointerTo(x.t), "", <<x>>)

(***************************************************************************)
(* Registry: Poly.types, a map from key to polyType                        *)
(***************************************************************************)
NoError == ""

\* The Go runtime's "fatal error: stack overflow" of a recursion that does
\* not end; like a panic it ends the run.
StackOverflow == "stack overflow"

\* key := iFaceType.PkgPath() + "." + iFaceType.Name()
KeyOf(t) == PkgPath(t) \o "." \o Name(t)

polyType(fieldType, discriminantFieldName) ==
    [fieldType |-> fieldType,
     discriminantFieldName |-> discriminantFieldName,
     structValues |-> <<>>,
     structCreators |-> <<>>,
     structTypes |-> <<>>,
     structFieldPos |-> <<>>]

\* reflect.TypeOf(x): nil for a nil `any`, on which Kind() panics.
iFaceType(iFacePtr) ==
    CASE iFacePtr.t = "nil" -> [type |-> "invalid", err |-> "panic"]
      [] Kind(iFacePtr.t) # "ptr" -> [type |-> "invalid", err |-> "InvalidArgument"]
      [] Kind(Elem(iFacePtr.t)) # "interface" -> [type |-> "invalid", err |-> "InvalidArgument"]
      [] OTHER -> [type |-> Elem(iFacePtr.t), err |-> NoError]

structType(structPtr) ==
    CASE structPtr.t = "nil" -> [type |-> "invalid", err |-> "panic"]
      [] Kind(structPtr.t) # "ptr" -> [type |-> "invalid", err |-> "InvalidArgument"]
      [] Kind(Elem(structPtr.t)) # "struct" -> [type |-> "invalid", err |-> "InvalidArgument"]
      [] OTHER -> [type |-> Elem(structPtr.t), err |-> NoError]

\* The result of RegisterInterface on registry p: the new registry and the error.
RegisterInterfaceResult(p, iFacePtr, discriminantFieldName) ==
    LET it == iFaceType(iFacePtr)
        key == KeyOf(it.type)
    IN  CASE it.err # NoError -> [types |-> p, err |-> it.err]
          [] key \in DOMAIN p -> [types |-> p, err |-> "AlreadyRegistered"]
          [] OTHER ->
               [types |-> p @@ (key :> polyType(it.type, discriminantFieldName)),
                err |-> NoError]

\* strings.Split(jsonTag, ",")[0] of a non-empty tag.
TagName(tag) == tag[1]

\* The loop of RegisterStruct: position (0-based) of the first field whose
\* json name is the discriminant field name, or -1.
FindFieldPos(st, discriminantFieldName) ==
    LET hits == {i \in 1..NumField(st) :
                    /\ Fields(st)[i].tag # <<>>
                    /\ TagName(Fields(st)[i].tag) = discriminantFieldName}
    IN  IF hits = {} THEN -1
        ELSE (CHOOSE i \in hits : \A j \in hits : i <= j) - 1

AppendBinding(entry, value, st, pos) ==
    [entry EXCEPT !.structValues = Append(@, value),
                  !.structCreators = Append(@, st),
                  !.structTypes = Append(@, st),
                  !.structFieldPos = Append(@, pos)]

\* RegisterStruct looking the interface up before it validates the struct
\* marker and the contract.
RegisterStructLookupFirst(p, iFacePtr, structPtr, value) ==
    LET it == iFaceType(iFacePtr)
        st == structType(structPtr)
        key == KeyOf(it.type)
    IN  CASE it.err # NoError -> [types |-> p, err |-> it.err]
          [] key \notin DOMAIN p -> [types |-> p, err |-> "NotRegistered"]
          [] st.err # NoError -> [types |-> p, err |-> st.err]
          [] ~Implements(PointerTo(st.type), it.type) -> [types |-> p, err |-> "TypeMismatch"]
          [] FindFieldPos(st.type, p[key].discriminantFieldName) = -1 ->
               [types |-> p, err |-> "DiscriminantFieldMissing"]
          [] OTHER ->
               [types |-> [p EXCEPT ![key] =
                              AppendBinding(@, value, st.type,
                                  FindFieldPos(st.type, p[key].discriminantFieldName))],
                err |-> NoError]

RegisterStructResult(p, iFacePtr, structPtr, value) ==
    LET it == iFaceType(iFacePtr)
        st == structType(structPtr)
        key == KeyOf(it.type)
    IN  CASE it.err # NoError -> [types |-> p, err |-> it.err]
          [] st.err # NoError -> [types |-> p, err |-> st.err]
          [] ~Implements(PointerTo(st.type), it.type) -> [types |-> p, err |-> "TypeMismatch"]
          [] key \notin DOMAIN p -> [types |-> p, err |-> "NotRegistered"]
          [] FindFieldPos(st.type, p[key].discriminantFieldName) = -1 ->
               [types |-> p, err |-> "DiscriminantFieldMissing"]
          [] OTHER ->
               [types |-> [p EXCEPT ![key] =
                              AppendBinding(@, value, st.type,
                                  FindFieldPos(st.type, p[key].discriminantFieldName))],
                err |-> NoError]

RECURSIVE SumLens(_, _)
SumLens(p, ks) ==
    IF ks = {} THEN 0
    ELSE LET k == CHOOSE x \in ks : TRUE
         IN  Len(p[k].structValues) + SumLens(p, ks \ {k})

\* Number of bindings held by the whole registry.
BindingCount(p) == SumLens(p, DOMAIN p)

(***************************************************************************)
(* BeforeMarshalJSON: the pre-encode traversal                             *)
(***************************************************************************)
\* The last binding whose struct type is t instead of the first.
LastTypeMatch(entry, t) ==
    LET hits == {i \in 1..Len(entry.structTypes) : entry.structTypes[i] = t}
    IN  IF hits = {} THEN 0 ELSE CHOOSE i \in hits : \A j \in hits : i >= j

\* Position (1-based) of the first binding whose struct type is t, or 0.
FirstTypeMatch(entry, t) ==
    LET hits == {i \in 1..Len(entry.structTypes) : entry.structTypes[i] = t}
    IN  IF hits = {} THEN 0 ELSE CHOOSE i \in hits : \A j \in hits : i <= j

\* val.Field(fieldOffset).Set(reflect.ValueOf(value)): reflect panics unless
\* the value's type is the field's type.
CanSetField(target, fieldOffset, value) ==
    Fields(target.t)[fieldOffset + 1].type = value.t

SetField(target, fieldOffset, value) ==
    [target EXCEPT !.c[fieldOffset + 1] = value]

\* Puts a processed pointee back behind the pointer or interface it was
\* reached through (Go mutates it in place).
Rewrap(outer, inner) == IF outer.c = <<>> THEN outer ELSE [outer EXCEPT !.c = <<inner>>]

\* Kinds whose elements the encode traversal walks into (line 189).
MarshalSequenceKinds == {"slice"}

RECURSIVE beforeMarshalJSONValue(_, _, _)
RECURSIVE marshalChildren(_, _, _, _)
RECURSIVE marshalBody(_, _, _)

RECURSIVE marshalChildrenGoOn(_, _, _, _)
\* Loops that visit the remaining children after an error and return the
\* first error at the end.
marshalChildrenGoOn(p, c, i, strictArg) ==
    IF i > Len(c) THEN [c |-> c, err |-> NoError]
    ELSE LET r == beforeMarshalJSONValue(p, c[i], strictArg)
             c2 == [c EXCEPT ![i] = r.val]
             rest == marshalChildrenGoOn(p, c2, i + 1, strictArg)
         IN  [c |-> rest.c, err |-> IF r.err # NoError THEN r.err ELSE rest.err]

\* Lines 182-197: struct fields, else slice elements, first error returns.
marshalBody(p, val, strictArg) ==
    IF Kind(val.t) = "struct" \/ Kind(val.t) \in MarshalSequenceKinds
    THEN LET r == marshalChildren(p, val.c, 1, strictArg)
         IN  [val |-> [val EXCEPT !.c = r.c], err |-> r.err]
    ELSE [val |-> val, err |-> NoError]

marshalChildren(p, c, i, strictArg) ==
    IF i > Len(c) THEN [c |-> c, err |-> NoError]
    ELSE LET r == beforeMarshalJSONValue(p, c[i], strictArg)
             c2 == [c EXCEPT ![i] = r.val]
         IN  IF r.err # NoError THEN [c |-> c2, err |-> r.err]
             ELSE marshalChildren(p, c2, i + 1, strictArg)

\* Lines 153-181 for a value of interface kind.
marshalInterface(p, val, strictArg) ==
    LET key == KeyOf(val.t)
    IN  IF key \notin DOMAIN p
        THEN [val |-> val, done |-> TRUE,
              err |-> IF strictArg THEN "UnregisteredInterface" ELSE NoError]
        ELSE
          LET entry == p[key]
              held == ElemOf(val)
              viaPtr == Kind(held.t) = "ptr"
              target == IF viaPtr THEN ElemOf(held) ELSE held
              pos == FirstTypeMatch(entry, target.t)
          IN  CASE Len(entry.structTypes) > 0 /\ target = Invalid ->
                     \* val.Type() on the zero Value
                     [val |-> val, done |-> TRUE, err |-> "panic"]
                [] pos = 0 ->
                     [val |-> val, done |-> TRUE, err |-> "UnregisteredImplementation"]
                [] ~viaPtr \/ ~CanSetField(target, entry.structFieldPos[pos], entry.structValues[pos]) ->
                     [val |-> val, done |-> TRUE, err |-> "panic"]
                [] OTHER ->
                     LET stamped == SetField(target, entry.structFieldPos[pos],
                                             entry.structValues[pos])
                         r == marshalBody(p, stamped, strictArg)
                     IN  [val |-> Rewrap(val, Rewrap(held, r.val)), done |-> TRUE,
                          err |-> r.err]

beforeMarshalJSONValue(p, val0, strictArg) ==
    LET isPtr == Kind(val0.t) = "ptr"
        val == IF isPtr THEN ElemOf(val0) ELSE val0
        back(x) == IF isPtr THEN Rewrap(val0, x) ELSE x
    IN  IF Kind(val.t) = "interface"
        THEN LET r == marshalInterface(p, val, strictArg)
             IN  [val |-> back(r.val), err |-> r.err]
        ELSE LET r == marshalBody(p, val, strictArg)
             IN  [val |-> back(r.val), err |-> r.err]

BeforeMarshalJSONResult(p, ptr, strictArg) == beforeMarshalJSONValue(p, ptr, strictArg)

(***************************************************************************)
(* JSON documents, encoding/json and gjson                                 *)
(* A document is [j, s, k, c]: kind, scalar spelling, object keys and      *)
(* children (object members in key order, or array elements).              *)
(***************************************************************************)
J(j, s, k, c) == [j |-> j, s |-> s, k |-> k, c |-> c]
JNull == J("null", "", <<>>, <<>>)
JStr(s) == J("str", s, <<>>, <<>>)
JNum(s) == J("num", s, <<>>, <<>>)
JObj(k, c) == J("obj", "", k, c)
JArr(c) == J("arr", "", <<>>, c)

\* strconv.Itoa for the indices the model reaches, and its inverse as gjson
\* reads a numeric path segment.
Digits == <<"0", "1", "2", "3", "4", "5", "6", "7", "8", "9">>
Itoa(i) == Digits[i + 1]
IsIndex(seg) == \E i \in 1..Len(Digits) : Digits[i] = seg
Atoi(seg) == (CHOOSE i \in 1..Len(Digits) : Digits[i] = seg) - 1

\* encoding/json's "empty" values for omitempty.
IsEmptyValue(val) ==
    CASE Kind(val.t) \in {"interface", "ptr", "slice"} -> val.c = <<>>
      [] val.t = "string" -> val.s = ""
      [] val.t \in {"int", "float64"} -> val.s = "0"
      [] OTHER -> FALSE

HasOpt(tag, o) == \E i \in 2..Len(tag) : tag[i] = o

\* The member name encoding/json uses for a struct field.
JsonName(f) == IF f.tag = <<>> \/ f.tag[1] = "" THEN f.name ELSE f.tag[1]

RECURSIVE JsonMarshal(_)
RECURSIVE marshalMembers(_, _, _, _)
marshalMembers(val, i, k, c) ==
    IF i > Len(val.c) THEN JObj(k, c)
    ELSE LET f == Fields(val.t)[i]
         IN  IF \/ (f.tag # <<>> /\ f.tag = <<"-">>)
                \/ (HasOpt(f.tag, "omitempty") /\ IsEmptyValue(val.c[i]))
             THEN marshalMembers(val, i + 1, k, c)
             ELSE marshalMembers(val, i + 1, Append(k, JsonName(f)),
                                 Append(c, JsonMarshal(val.c[i])))

\* json.Marshal
JsonMarshal(val) ==
    CASE val = Invalid -> JNull
      [] Kind(val.t) \in {"interface", "ptr"} ->
           IF val.c = <<>> THEN JNull ELSE JsonMarshal(val.c[1])
      [] Kind(val.t) = "slice" ->
           IF val.c = <<>> THEN JNull
           ELSE JArr([i \in 1..Len(val.c) |-> JsonMarshal(val.c[i])])
      [] Kind(val.t) = "array" ->
           JArr([i \in 1..Len(val.c) |-> JsonMarshal(val.c[i])])
      [] Kind(val.t) = "struct" -> marshalMembers(val, 1, <<>>, <<>>)
      [] val.t = "string" -> JStr(val.s)
      [] OTHER -> JNum(val.s)

NotFound == [exists |-> FALSE, doc |-> JNull]

RECURSIVE GjsonGet(_, _)
\* gjson.GetBytes(buf, strings.Join(path, ".")) for path segments without
\* gjson metacharacters.
GjsonGet(doc, path) ==
    IF path = <<>> THEN [exists |-> TRUE, doc |-> doc]
    ELSE LET seg == path[1]
             rest == Tail(path)
         IN  CASE doc.j = "obj" ->
                    LET hits == {i \in 1..Len(doc.k) : doc.k[i] = seg}
                    IN  IF hits = {} THEN NotFound
                        ELSE GjsonGet(doc.c[CHOOSE i \in hits : \A h \in hits : i <= h], rest)
               [] doc.j = "arr" ->
                    CASE seg = "#" /\ rest = <<>> ->
                           [exists |-> TRUE, doc |-> JNum(Itoa(Len(doc.c)))]
                      [] IsIndex(seg) /\ Atoi(seg) < Len(doc.c) ->
                           GjsonGet(doc.c[Atoi(seg) + 1], rest)
                      [] OTHER -> NotFound
               [] OTHER -> NotFound

\* Result.Value(): JSON numbers come back as float64, strings as string.
GjsonValue(doc) ==
    CASE doc.j = "str" -> StrV(doc.s)
      [] doc.j = "num" -> FloatV(doc.s)
      [] doc.j = "null" -> NilAny
      [] doc.j = "obj" -> V("map[string]interface{}", "", <<>>)
      [] OTHER -> V("[]interface{}", "", <<>>)

\* Result.Int(): 0 unless the result is a number.
GjsonInt(r) == IF r.exists /\ r.doc.j = "num" /\ IsIndex(r.doc.s) THEN Atoi(r.doc.s) ELSE 0

RECURSIVE JsonUnmarshal(_, _)
RECURSIVE unmarshalMembers(_, _, _)
unmarshalMembers(doc, val, i) ==
    IF i > Len(doc.k) THEN val
    ELSE LET hits == {n \in 1..NumField(val.t) :
                         /\ Fields(val.t)[n].tag # <<"-">>
                         /\ JsonName(Fields(val.t)[n]) = doc.k[i]}
         IN  IF hits = {} THEN unmarshalMembers(doc, val, i + 1)
             ELSE LET n == CHOOSE h \in hits : \A g \in hits : h <= g
                  IN  unmarshalMembers(doc,
                          [val EXCEPT !.c[n] = JsonUnmarshal(doc.c[i], val.c[n])], i + 1)

\* json.Unmarshal into an existing value: a non-nil pointer behind an
\* interface is decoded into, a nil interface receives a generic value.
JsonUnmarshal(doc, val) ==
    CASE Kind(val.t) = "ptr" ->
           IF doc.j = "null" THEN [val EXCEPT !.c = <<>>]
           ELSE [val EXCEPT !.c = <<JsonUnmarshal(doc,
                     IF val.c = <<>> THEN Zero(Elem(val.t)) ELSE val.c[1])>>]
      [] Kind(val.t) = "interface" ->
           CASE doc.j = "null" -> [val EXCEPT !.c = <<>>]
             [] val.c # <<>> /\ Kind(val.c[1].t) = "ptr" /\ val.c[1].c # <<>> ->
                  [val EXCEPT !.c = <<JsonUnmarshal(doc, val.c[1])>>]
             [] OTHER -> [val EXCEPT !.c = <<GjsonValue(doc)>>]
      [] Kind(val.t) = "struct" ->
           IF doc.j = "obj" THEN unmarshalMembers(doc, val, 1) ELSE val
      [] Kind(val.t) = "slice" ->
           IF doc.j = "arr"
           THEN [val EXCEPT !.c = [i \in 1..Len(doc.c) |->
                     JsonUnmarshal(doc.c[i],
                         IF i <= Len(val.c) THEN val.c[i] ELSE Zero(Elem(val.t)))]]
           ELSE IF doc.j = "null" THEN [val EXCEPT !.c = <<>>] ELSE val
      [] Kind(val.t) = "array" ->
           IF doc.j = "arr"
           THEN [val EXCEPT !.c = [i \in 1..Len(val.c) |->
                     IF i <= Len(doc.c) THEN JsonUnmarshal(doc.c[i], val.c[i])
                     ELSE Zero(Elem(val.t))]]
           ELSE val
      [] val.t = "string" -> IF doc.j = "str" THEN [val EXCEPT !.s = doc.s] ELSE val
      [] OTHER -> IF doc.j = "num" THEN [val EXCEPT !.s = doc.s] ELSE val

(***************************************************************************)
(* Go slices of strings (the prefix argument): a slice is a window         *)
(* [arr, len, cap] on a backing array of the heap; append writes in place  *)
(* when capacity is left and otherwise copies to a fresh array.            *)
(***************************************************************************)
NilSlice == [arr |-> 0, len |-> 0, cap |-> 0]

SliceElems(heap, sl) == IF sl.len = 0 THEN <<>> ELSE SubSeq(heap[sl.arr], 1, sl.len)

GrowCap(cap) == IF cap = 0 THEN 1 ELSE cap + cap

\* append(sl, x)
goAppend(heap, sl, x) ==
    IF sl.len < sl.cap
    THEN [heap |-> [heap EXCEPT ![sl.arr][sl.len + 1] = x],
          slice |-> [sl EXCEPT !.len = sl.len + 1]]
    ELSE LET ncap == GrowCap(sl.cap)
             old == SliceElems(heap, sl)
             narr == [i \in 1..ncap |->
                         IF i <= sl.len THEN old[i] ELSE IF i = sl.len + 1 THEN x ELSE ""]
         IN  [heap |-> Append(heap, narr),
              slice |-> [arr |-> Len(heap) + 1, len |-> sl.len + 1, cap |-> ncap]]

(***************************************************************************)
(* BeforeUnmarshalJSON: the pre-decode traversal                           *)
(***************************************************************************)
\* The last binding whose value equals iVal instead of the first.
LastValueMatch(entry, iVal) ==
    LET hits == {i \in 1..Len(entry.structValues) : entry.structValues[i] = iVal}
    IN  IF hits = {} THEN 0 ELSE CHOOSE i \in hits : \A j \in hits : i >= j

\* Position (1-based) of the first binding whose value equals iVal, or 0.
FirstValueMatch(entry, iVal) ==
    LET hits == {i \in 1..Len(entry.structValues) : entry.structValues[i] = iVal}
    IN  IF hits = {} THEN 0 ELSE CHOOSE i \in hits : \A j \in hits : i <= j

\* reflect.New(reflect.TypeOf(v)).Elem().Interface()
ZeroOfTypeOf(v) == V(v.t, ZeroScalar(v.t), <<>>)

\* A default that is the first binding's own discriminant value.
DefaultDiscriminantFirstValue(entry) == entry.structValues[1]

\* Line 232: the discriminant assumed when the payload has none.
DefaultDiscriminant(entry) == ZeroOfTypeOf(entry.structValues[1])

\* entry.structCreators[pos](): a pointer to a new zero struct.
Create(entry, pos) == AddrOf(Zero(entry.structCreators[pos]))

\* A traversal that keeps the slice extended by the discriminant name.
prefixExtended(prefix, fieldPathSlice) == fieldPathSlice

\* The prefix the traversal goes on with after line 226 built fieldPath:
\* the result of that append is not assigned to prefix.
prefixAfterFieldPath(prefix, fieldPathSlice) == prefix

\* Fields the decode traversal walks into (lines 255-262).
HasJsonName(f) == f.tag # <<>> /\ TagName(f.tag) # ""

Q(kind, path) == [q |-> kind, path |-> path]

\* A sizing that keeps the length of a slice the caller populated.
sliceLenKeepPresized(val, bufArg, path) ==
    IF val.c # <<>> THEN Len(val.c) ELSE GjsonInt(GjsonGet(bufArg, path))

\* Line 269: l, the length the slice is made with, whatever it held.
sliceLen(val, bufArg, path) == GjsonInt(GjsonGet(bufArg, path))

RECURSIVE beforeUnmarshalJSONValue(_, _, _, _, _, _, _)
RECURSIVE unmarshalFields(_, _, _, _, _, _, _, _)
RECURSIVE unmarshalElems(_, _, _, _, _, _, _, _)

\* Lines 253-279 on a value that is no interface (any more).
unmarshalBody(p, prefix, val, bufArg, strictArg, heap, log) ==
    CASE Kind(val.t) = "struct" ->
           unmarshalFields(p, prefix, val, 1, bufArg, strictArg, heap, log)
      [] Kind(val.t) = "slice" ->
           LET a == goAppend(heap, prefix, "#")
               path == SliceElems(a.heap, a.slice)
               l == sliceLen(val, bufArg, path)
               made == [val EXCEPT !.c = [i \in 1..l |-> Zero(Elem(val.t))]]
           IN  unmarshalElems(p, prefix, made, 0, bufArg, strictArg, a.heap,
                              Append(log, Q("length", path)))
      [] OTHER -> [val |-> val, err |-> NoError, heap |-> heap, log |-> log]

unmarshalFields(p, prefix, val, i, bufArg, strictArg, heap, log) ==
    IF i > Len(val.c) THEN [val |-> val, err |-> NoError, heap |-> heap, log |-> log]
    ELSE IF ~HasJsonName(Fields(val.t)[i])
    THEN unmarshalFields(p, prefix, val, i + 1, bufArg, strictArg, heap, log)
    ELSE LET a == goAppend(heap, prefix, TagName(Fields(val.t)[i].tag))
             r == beforeUnmarshalJSONValue(p, a.slice, val.c[i], bufArg, strictArg,
                                           a.heap, log)
             val2 == [val EXCEPT !.c[i] = r.val]
         IN  IF r.err # NoError
             THEN [val |-> val2, err |-> r.err, heap |-> r.heap, log |-> r.log]
             ELSE unmarshalFields(p, prefix, val2, i + 1, bufArg, strictArg, r.heap, r.log)

\* i is the 0-based index of the loop at line 272.
unmarshalElems(p, prefix, val, i, bufArg, strictArg, heap, log) ==
    IF i >= Len(val.c) THEN [val |-> val, err |-> NoError, heap |-> heap, log |-> log]
    ELSE LET a == goAppend(heap, prefix, Itoa(i))
             r == beforeUnmarshalJSONValue(p, a.slice, val.c[i + 1], bufArg, strictArg,
                                           a.heap, log)
             val2 == [val EXCEPT !.c[i + 1] = r.val]
         IN  IF r.err # NoError
             THEN [val |-> val2, err |-> r.err, heap |-> r.heap, log |-> r.log]
             ELSE unmarshalElems(p, prefix, val2, i + 1, bufArg, strictArg, r.heap, r.log)

\* Lines 213-252 for a value of interface kind.
unmarshalInterface(p, prefix, val, bufArg, strictArg, heap, log) ==
    LET key == KeyOf(val.t)
    IN  IF key \notin DOMAIN p
        THEN [val |-> val, heap |-> heap, log |-> log,
              err |-> IF strictArg THEN "UnregisteredInterface" ELSE NoError]
        ELSE
          LET entry == p[key]
              a == goAppend(heap, prefix, entry.discriminantFieldName)
              fieldPath == SliceElems(a.heap, a.slice)
              log2 == Append(log, Q("value", fieldPath))
              inputVal == GjsonGet(bufArg, fieldPath)
              fail(e) == [val |-> val, heap |-> a.heap, log |-> log2, err |-> e]
          IN  IF ~inputVal.exists /\ (entry.structValues = <<>> \/ entry.structValues[1] = NilAny)
              THEN fail("panic")
              ELSE
                LET iVal == IF inputVal.exists THEN GjsonValue(inputVal.doc)
                            ELSE DefaultDiscriminant(entry)
                    pos == FirstValueMatch(entry, iVal)
                IN  CASE pos = 0 -> fail("UnresolvedDiscriminant")
                      [] ~Implements(PointerTo(entry.structCreators[pos]), val.t) ->
                           fail("panic")
                      [] OTHER ->
                           LET refVal == Create(entry, pos)
                               r == unmarshalBody(p, prefixAfterFieldPath(prefix, a.slice),
                                                  ElemOf(refVal), bufArg, strictArg,
                                                  a.heap, log2)
                           IN  [val |-> [val EXCEPT !.c = <<Rewrap(refVal, r.val)>>],
                                heap |-> r.heap, log |-> r.log, err |-> r.err]

beforeUnmarshalJSONValue(p, prefix, val0, bufArg, strictArg, heap, log) ==
    LET isPtr == Kind(val0.t) = "ptr"
        val == IF isPtr THEN ElemOf(val0) ELSE val0
        r == IF Kind(val.t) = "interface"
             THEN unmarshalInterface(p, prefix, val, bufArg, strictArg, heap, log)
             ELSE unmarshalBody(p, prefix, val, bufArg, strictArg, heap, log)
    IN  IF prefix.len >= MaxStack
        THEN [val |-> val0, err |-> StackOverflow, heap |-> heap, log |-> log]
        ELSE [r EXCEPT !.val = IF isPtr THEN Rewrap(val0, r.val) ELSE r.val]

\* BeforeUnmarshalJSON passes a nil prefix.
BeforeUnmarshalJSONResult(p, bufArg, ptr, strictArg) ==
    beforeUnmarshalJSONValue(p, NilSlice, ptr, bufArg, strictArg, <<>>, <<>>)

(***************************************************************************)
(* The callers' inputs                                                     *)
(***************************************************************************)
Circle(type, radius) == V("Circle", "", <<StrV(type), FloatV(radius)>>)
Rect(type, width, height) == V("Rect", "", <<StrV(type), FloatV(width), FloatV(height)>>)
Num(radius, type) == V("Num", "", <<FloatV(radius), IntV(type)>>)
Group(type, inner) == V("Group", "", <<StrV(type), inner>>)
\* An interface value of type t holding x.
Hold(t, x) == V(t, "", <<x>>)
Request(shape) == V("Request", "", <<shape>>)

NewCircle == Hold("Shape", AddrOf(Circle("", "10")))
NewRect == Hold("Shape", AddrOf(Rect("", "5", "3")))
NewGroup == Hold("Shape", AddrOf(Group("", NewCircle)))
TwoShapes == V("[]Shape", "", <<NewCircle, NewGroup>>)

\* The value trees handed to BeforeMarshalJSON.
EncodeInputs ==
    {AddrOf(x) : x \in
       {Request(NewCircle),
        Request(Hold("Shape", AddrOf(Circle("stale", "10")))),
        Request(NewRect),
        Request(Zero("Shape")),
        Request(Hold("Shape", AddrOf(Num("3", "0")))),
        Request(NewGroup),
        V("RequestWithSlice", "", <<TwoShapes>>),
        V("RequestWithSlice", "", <<V("[]Shape", "", <<NewRect, NewCircle>>)>>),
        V("NestedRequest", "", <<V("NestedRequest.Data", "", <<NewCircle>>)>>),
        V("Mixed", "", <<Hold("AnotherShape#marshal", AddrOf(Circle("", "10"))), NewCircle>>),
        V("RequestWithArray", "",
          <<V("[]Shape", "", <<NewCircle>>), V("[2]Shape", "", <<NewCircle, NewCircle>>)>>),
        V("DeepRequest", "", <<V("DeepRequest.Data", "", <<TwoShapes, NewCircle>>)>>),
        V("Holder", "", <<AddrOf(Request(NewCircle))>>)}}

JShape(type) == JObj(<<"type", "radius">>, <<type, JNum("10")>>)
JNoType == JObj(<<"radius">>, <<JNum("10")>>)
JCircle == JShape(JStr("circle"))

\* The payloads and roots handed to BeforeUnmarshalJSON.
DecodeInputs ==
    {<<JObj(<<"shape">>, <<j>>), AddrOf(Zero("Request"))>> :
        j \in {JCircle, JShape(JStr("triangle")), JShape(JNum("1")), JNoType,
               JObj(<<"type", "inner">>, <<JStr("circle"), JCircle>>)}}
    \cup
    {<<JObj(<<"shape">>, <<JCircle>>), AddrOf(Request(NewRect))>>,
     <<JObj(<<"shapes">>, <<JArr(<<JCircle, JNoType>>)>>), AddrOf(Zero("RequestWithSlice"))>>,
     <<JObj(<<"shapes">>, <<JArr(<<JCircle>>)>>), AddrOf(V("RequestWithSlice", "", <<TwoShapes>>))>>,
     <<JObj(<<"shape">>, <<JCircle>>), AddrOf(V("RequestWithSlice", "", <<TwoShapes>>))>>,
     <<JObj(<<"shapes", "fixed">>, <<JArr(<<JCircle>>), JArr(<<JCircle, JCircle>>)>>),
       AddrOf(Zero("RequestWithArray"))>>,
     <<JObj(<<"other", "shape">>, <<JCircle, JCircle>>), AddrOf(Zero("Mixed"))>>,
     <<JObj(<<"data">>, <<JObj(<<"shapes", "shape">>,
           <<JArr(<<JCircle, JNoType>>), JCircle>>)>>),
       AddrOf(Zero("DeepRequest"))>>}

NilPtr(t) == V(PointerTo(t), "", <<>>)

\* Markers handed to RegisterInterface.
InterfaceMarkers ==
    {NilPtr(t) : t \in InterfaceTypes} \cup {NilPtr("string"), V("struct{}", "", <<>>), NilAny}

DiscriminantNames == {"type"}

\* Calls of RegisterStruct: <<iFacePtr, structPtr, value>>.
RegisterStructCalls ==
    ({NilPtr("Shape")} \X
        {<<NilPtr("Circle"), StrV("circle")>>, <<NilPtr("Circle"), StrV("")>>,
         <<NilPtr("Group"), StrV("circle")>>, <<NilPtr("Num"), IntV("1")>>,
         <<NilPtr("Circle"), NilAny>>, <<NilPtr("Group"), StrV("")>>,
         <<NilPtr("CircleWithoutType"), StrV("circle")>>,
         <<Circle("", "0"), StrV("circle")>>, <<NilPtr("string"), StrV("circle")>>,
         <<NilAny, StrV("circle")>>})
    \cup
    ({NilPtr("AnotherShape#marshal"), NilPtr("AnotherShape#unmarshal"), NilPtr("Sized"),
      NilPtr("string"), NilAny} \X
        {<<NilPtr("Circle"), StrV("circle")>>, <<Circle("", "0"), StrV("circle")>>})

(***************************************************************************)
(* State machine                                                           *)
(***************************************************************************)
NoArg == [iFacePtr |-> NilAny, structPtr |-> NilAny, value |-> NilAny, name |-> "",
          ptr |-> Invalid]

Init ==
    /\ types = <<>>
    /\ op = "new"
    /\ arg = NoArg
    /\ strict = FALSE
    /\ err = NoError
    /\ root = Invalid
    /\ buf = JNull
    /\ orig = Invalid
    /\ queried = <<>>

Idle == /\ strict' = FALSE /\ root' = Invalid /\ buf' = JNull /\ orig' = Invalid
        /\ queried' = <<>>

\* The caller is sequential and handles one call chain at a time: it starts a
\* registration or a traversal when it is done with the outcome of the
\* previous one.  The calls read only the registry and their arguments.
Ready == op \in {"new", "ready"}

\* The caller is done with the outcome of the last call; a panic or a stack
\* overflow ends the run.
Return ==
    /\ ~Ready
    /\ err \notin {"panic", StackOverflow}
    /\ op' = "ready"
    /\ arg' = NoArg
    /\ err' = NoError
    /\ Idle
    /\ UNCHANGED types

RegisterInterface(iFacePtr, discriminantFieldName) ==
    LET r == RegisterInterfaceResult(types, iFacePtr, discriminantFieldName)
    IN  /\ Ready
        /\ types' = r.types
        /\ err' = r.err
        /\ op' = "RegisterInterface"
        /\ arg' = [NoArg EXCEPT !.iFacePtr = iFacePtr, !.name = discriminantFieldName]
        /\ Idle

RegisterStruct(iFacePtr, structPtr, value) ==
    LET r == RegisterStructResult(types, iFacePtr, structPtr, value)
    IN  /\ Ready
        /\ BindingCount(types) < MaxBindings
        /\ types' = r.types
        /\ err' = r.err
        /\ op' = "RegisterStruct"
        /\ arg' = [NoArg EXCEPT !.iFacePtr = iFacePtr, !.structPtr = structPtr,
                                !.value = value]
        /\ Idle

BeforeMarshalJSON(ptr, strictArg) ==
    LET r == BeforeMarshalJSONResult(types, ptr, strictArg)
    IN  /\ Ready
        /\ root' = r.val
        /\ err' = r.err
        /\ op' = "BeforeMarshalJSON"
        /\ arg' = [NoArg EXCEPT !.ptr = ptr]
        /\ strict' = strictArg
        /\ orig' = ptr
        /\ buf' = JNull
        /\ queried' = <<>>
        /\ UNCHANGED types

\* The caller's json.Marshal(req) after a successful BeforeMarshalJSON.
Marshal ==
    /\ op = "BeforeMarshalJSON"
    /\ err = NoError
    /\ buf' = JsonMarshal(root)
    /\ op' = "json.Marshal"
    /\ UNCHANGED <<types, arg, strict, err, root, orig, queried>>

Decode(bufArg, ptr, strictArg, from) ==
    LET r == BeforeUnmarshalJSONResult(types, bufArg, ptr, strictArg)
    IN  /\ root' = r.val
        /\ err' = r.err
        /\ queried' = r.log
        /\ op' = "BeforeUnmarshalJSON"
        /\ arg' = [NoArg EXCEPT !.ptr = ptr]
        /\ strict' = strictArg
        /\ orig' = from
        /\ buf' = bufArg
        /\ UNCHANGED types

\* BeforeUnmarshalJSON on a payload received from elsewhere.
BeforeUnmarshalJSON(bufArg, ptr, strictArg) ==
    /\ Ready
    /\ Decode(bufArg, ptr, strictArg, Invalid)

\* BeforeUnmarshalJSON(buf, req2, strict) on the bytes just marshalled, with
\* a fresh zero value of the original's type.
BeforeUnmarshalJSONBack(strictArg) ==
    /\ op = "json.Marshal"
    /\ Decode(buf, AddrOf(Zero(Elem(orig.t))), strictArg, orig)

\* The caller's json.Unmarshal(buf, &req) after a successful BeforeUnmarshalJSON.
Unmarshal ==
    /\ op = "BeforeUnmarshalJSON"
    /\ err = NoError
    /\ root' = JsonUnmarshal(buf, root)
    /\ op' = "json.Unmarshal"
    /\ UNCHANGED <<types, arg, strict, err, buf, orig, queried>>

Next ==
    \/ \E m \in InterfaceMarkers, n \in DiscriminantNames : RegisterInterface(m, n)
    \/ \E c \in RegisterStructCalls : RegisterStruct(c[1], c[2][1], c[2][2])
    \/ \E ptr \in EncodeInputs, s \in BOOLEAN : BeforeMarshalJSON(ptr, s)
    \/ Marshal
    \/ \E d \in DecodeInputs, s \in BOOLEAN : BeforeUnmarshalJSON(d[1], d[2], s)
    \/ \E s \in BOOLEAN : BeforeUnmarshalJSONBack(s)
    \/ Unmarshal
    \/ Return

Spec == Init /\ [][Next]_vars

(***************************************************************************)
(* Vocabulary of the properties                                            *)
(***************************************************************************)
ShapeKey == KeyOf("Shape")

\* The abstract type t itself (not merely its key) has a registration.
Registered(t) == \E k \in DOMAIN types : types[k].fieldType = t

\* The last call was a traversal of a root of struct type t.
Traversed(o, t) == op = o /\ arg.ptr # Invalid /\ Elem(arg.ptr.t) = t

\* Field n (1-based) of the struct a root pointer points to.
RootField(r, n) == ElemOf(r).c[n]

\* The concrete instance behind an interface slot: the pointee of the
\* pointer it holds.
Instance(slot) == ElemOf(ElemOf(slot))

Least(S) == CHOOSE i \in S : \A j \in S : i <= j

WellFormedInterfaceMarker(m) ==
    m.t # "nil" /\ Kind(m.t) = "ptr" /\ Kind(Elem(m.t)) = "interface"

WellFormedStructMarker(m) ==
    m.t # "nil" /\ Kind(m.t) = "ptr" /\ Kind(Elem(m.t)) = "struct"

(***************************************************************************)
(* C1                                                                      *)
(***************************************************************************)
DiscriminantMissing ==
    /\ Traversed("BeforeUnmarshalJSON", "Request")
    /\ ShapeKey \in DOMAIN types
    /\ Len(types[ShapeKey].structValues) >= 1
    /\ ~GjsonGet(buf, <<"shape", "type">>).exists

\* C1 (as claimed): when the payload has no discriminant at the slot's path
\* and the interface has a binding, the slot receives an instance of the
\* first-registered binding's type, whatever that binding's value is.
C1_DefaultIsFirstBinding ==
    DiscriminantMissing =>
        ElemOf(RootField(root, 1)).t = PointerTo(types[ShapeKey].structTypes[1])

\* C1 (amended): when the payload has no discriminant at the slot's path,
\* the discriminant is taken to be the zero value of the Go type of the
\* first binding's value; the slot receives an instance of the earliest
\* binding whose value equals that zero value, and when there is none the
\* call fails with UnresolvedDiscriminant and leaves the slot as it was.
\* A first binding registered with a nil value has no type to take the zero
\* value of: the call panics.  The pass goes on inside the new instance; when
\* its type holds a slot of the same interface, that slot has no
\* discriminant in the payload either and the recursion does not end.
C1_DefaultIsZeroValue ==
    DiscriminantMissing =>
        LET e == types[ShapeKey]
            first == e.structValues[1]
            zero == IF first.t = "string" THEN StrV("") ELSE V(first.t, "0", <<>>)
            hits == {i \in 1..Len(e.structValues) : e.structValues[i] = zero}
        IN  CASE first = NilAny ->
                   err = "panic" /\ RootField(root, 1) = RootField(arg.ptr, 1)
              [] hits = {} ->
                   err = "UnresolvedDiscriminant" /\ RootField(root, 1) = RootField(arg.ptr, 1)
              [] OTHER ->
                   /\ ElemOf(RootField(root, 1)).t = PointerTo(e.structTypes[Least(hits)])
                   /\ IF e.structTypes[Least(hits)] = "Group"
                      THEN err = StackOverflow
                      ELSE err = NoError

\* The second binding is chosen for a payload without discriminant: its
\* value is "", the first binding's is not.
C1_Witness ==
    /\ DiscriminantMissing
    /\ err = NoError
    /\ Len(types[ShapeKey].structValues) = 2
    /\ types[ShapeKey].structValues[1] # StrV("")
    /\ ElemOf(RootField(root, 1)).t = PointerTo(types[ShapeKey].structTypes[2])

(***************************************************************************)
(* C2                                                                      *)
(***************************************************************************)
NoDuplicates(seq) == \A i, j \in 1..Len(seq) : seq[i] = seq[j] => i = j

\* A round trip of a Request whose Shape slot holds an instance of a bound
\* type, under a registry whose bindings neither repeat a value nor a type.
RoundTripOfRequest ==
    /\ orig # Invalid
    /\ Elem(orig.t) = "Request"
    /\ ShapeKey \in DOMAIN types
    /\ NoDuplicates(types[ShapeKey].structValues)
    /\ NoDuplicates(types[ShapeKey].structTypes)

\* C2 (as claimed): PrepareForEncode, the encoder, PrepareForDecode on a
\* fresh zero root and the decoder give back an instance of the same type
\* with the binding's discriminant value and the original other fields, for
\* string and for number discriminant values.
C2_RoundTrip ==
    RoundTripOfRequest =>
        /\ op = "BeforeUnmarshalJSON" => err = NoError
        /\ op = "json.Unmarshal" =>
             LET was == Instance(RootField(orig, 1))
                 now == Instance(RootField(root, 1))
                 e == types[ShapeKey]
                 pos == Least({i \in 1..Len(e.structTypes) : e.structTypes[i] = was.t})
             IN  /\ now.t = was.t
                 /\ ElemOf(RootField(root, 1)).t = ElemOf(RootField(orig, 1)).t
                 /\ \A n \in 1..NumField(was.t) :
                       IF n = e.structFieldPos[pos] + 1
                       THEN now.c[n] = e.structValues[pos]
                       ELSE Kind(Fields(was.t)[n].type) # "interface" => now.c[n] = was.c[n]

(***************************************************************************)
(* C3                                                                      *)
(***************************************************************************)
\* A traversal of a Mixed root, whose first slot is of an abstract type that
\* has no registration.
UnregisteredSlotVisited ==
    /\ \/ Traversed("BeforeMarshalJSON", "Mixed")
       \/ Traversed("BeforeUnmarshalJSON", "Mixed")
    /\ ~Registered("AnotherShape#marshal")

\* What the traversal does to the sibling Shape slot when it is alone.
SiblingAlone ==
    LET alone == AddrOf(Request(RootField(arg.ptr, 2)))
    IN  IF op = "BeforeMarshalJSON"
        THEN BeforeMarshalJSONResult(types, alone, strict)
        ELSE [val |-> BeforeUnmarshalJSONResult(types, buf, alone, strict).val,
              err |-> BeforeUnmarshalJSONResult(types, buf, alone, strict).err]

\* C3 (as claimed): at a slot whose abstract type has no registration the
\* traversal fails with UnregisteredInterface when strict, and when lenient
\* leaves the slot unchanged and goes on to resolve the sibling slots.
C3_StrictVsLenient ==
    UnregisteredSlotVisited =>
        IF strict THEN err = "UnregisteredInterface"
        ELSE /\ RootField(root, 1) = RootField(arg.ptr, 1)
             /\ err = SiblingAlone.err
             /\ RootField(root, 2) = RootField(SiblingAlone.val, 1)

(***************************************************************************)
(* C4                                                                      *)
(***************************************************************************)
\* C4 (as claimed): when no binding's value equals the discriminant found at
\* the slot's path, and also when the interface has no bindings at all,
\* PrepareForDecode returns UnresolvedDiscriminant and assigns nothing.
C4_UnknownDiscriminant ==
    (/\ Traversed("BeforeUnmarshalJSON", "Request")
     /\ ShapeKey \in DOMAIN types
     /\ LET found == GjsonGet(buf, <<"shape", "type">>)
            e == types[ShapeKey]
        IN  \/ e.structValues = <<>>
            \/ /\ found.exists
               /\ \A i \in 1..Len(e.structValues) : e.structValues[i] # GjsonValue(found.doc))
    => /\ err = "UnresolvedDiscriminant"
       /\ RootField(root, 1) = RootField(arg.ptr, 1)

(***************************************************************************)
(* C5                                                                      *)
(***************************************************************************)
\* C5 (as claimed): RegisterInterface returns InvalidArgument for every
\* marker that is no pointer to an interface (a nil marker included),
\* AlreadyRegistered exactly when the same abstract type was registered
\* before, and otherwise inserts an empty registration of that type.
C5_RegisterInterfaceErrors ==
    op = "RegisterInterface" =>
        LET m == arg.iFacePtr
        IN  IF ~WellFormedInterfaceMarker(m) THEN err = "InvalidArgument"
            ELSE /\ err \in {NoError, "AlreadyRegistered"}
                 /\ err = "AlreadyRegistered" => Registered(Elem(m.t))
                 /\ err = NoError =>
                      /\ KeyOf(Elem(m.t)) \in DOMAIN types
                      /\ types[KeyOf(Elem(m.t))] = polyType(Elem(m.t), arg.name)

(***************************************************************************)
(* C6                                                                      *)
(***************************************************************************)
\* Some field of struct type st carries the json name n.
HasTaggedField(st, n) ==
    \E i \in 1..NumField(st) : Fields(st)[i].tag # <<>> /\ Fields(st)[i].tag[1] = n

\* C6 (as claimed): RegisterStruct returns NotRegistered whenever the
\* abstract type has not been registered, whatever the concrete marker is,
\* and succeeds only when all four preconditions hold.
C6_NotRegisteredWhateverTheMarker ==
    (/\ op = "RegisterStruct"
     /\ WellFormedInterfaceMarker(arg.iFacePtr)
     /\ arg.structPtr.t # "nil")
    => /\ ~Registered(Elem(arg.iFacePtr.t)) => err = "NotRegistered"
       /\ err = NoError =>
            /\ Registered(Elem(arg.iFacePtr.t))
            /\ WellFormedStructMarker(arg.structPtr)

\* C6 (amended): RegisterStruct checks in a fixed order and reports the
\* first check that fails: the abstract marker is a pointer to an interface
\* (InvalidArgument), the concrete marker is a pointer to a struct
\* (InvalidArgument), the concrete type satisfies the interface
\* (TypeMismatch), a registration is stored under the abstract type's key
\* (NotRegistered), a field carries the discriminant tag name
\* (DiscriminantFieldMissing); a nil marker makes the check that inspects it
\* panic. It succeeds exactly when all checks pass.
C6_FirstFailedCheckIsReported ==
    op = "RegisterStruct" =>
        LET m == arg.iFacePtr
            sp == arg.structPtr
            it == Elem(m.t)
            st == Elem(sp.t)
        IN  err =
              CASE m.t = "nil" -> "panic"
                [] ~WellFormedInterfaceMarker(m) -> "InvalidArgument"
                [] sp.t = "nil" -> "panic"
                [] ~WellFormedStructMarker(sp) -> "InvalidArgument"
                [] ~(Methods(it) \subseteq MethodSet(sp.t)) -> "TypeMismatch"
                [] KeyOf(it) \notin DOMAIN types -> "NotRegistered"
                [] ~HasTaggedField(st, types[KeyOf(it)].discriminantFieldName) ->
                     "DiscriminantFieldMissing"
                [] OTHER -> NoError

\* An unregistered abstract type with a concrete marker that is no pointer:
\* the call reports InvalidArgument, not NotRegistered.
C6_Witness ==
    /\ op = "RegisterStruct"
    /\ types = <<>>
    /\ WellFormedInterfaceMarker(arg.iFacePtr)
    /\ arg.structPtr = Circle("", "0")
    /\ err = "InvalidArgument"

(***************************************************************************)
(* C7                                                                      *)
(***************************************************************************)
IsValueQuery(x) == x.q = "value"

\* The paths BeforeUnmarshalJSON asked gjson for a discriminant.
DiscriminantQueries == SelectSeq(queried, IsValueQuery)

RECURSIVE Concat(_)
Concat(ss) == IF ss = <<>> THEN <<>> ELSE Head(ss) \o Concat(Tail(ss))

RECURSIVE SlotPaths(_, _, _)
\* In depth-first order, for every interface slot with a registered key that
\* is reached from val through pointers, json-named struct fields, slice
\* elements and resolved instances: its route of tag names and indices from
\* the root followed by its interface's discriminant field name.
SlotPaths(p, val0, route) ==
    LET val == IF Kind(val0.t) = "ptr" THEN ElemOf(val0) ELSE val0
        inner(v) ==
            CASE Kind(v.t) = "struct" ->
                   Concat([n \in 1..Len(v.c) |->
                       LET f == Fields(v.t)[n]
                       IN  IF f.tag # <<>> /\ f.tag[1] # ""
                           THEN SlotPaths(p, v.c[n], Append(route, f.tag[1]))
                           ELSE <<>>])
              [] Kind(v.t) = "slice" ->
                   Concat([n \in 1..Len(v.c) |->
                       SlotPaths(p, v.c[n], Append(route, Itoa(n - 1)))])
              [] OTHER -> <<>>
    IN  IF Kind(val.t) = "interface"
        THEN IF KeyOf(val.t) \notin DOMAIN p THEN <<>>
             ELSE <<Append(route, p[KeyOf(val.t)].discriminantFieldName)>>
                  \o (IF val.c = <<>> THEN <<>> ELSE inner(Instance(val)))
        ELSE inner(val)

\* C7: every discriminant query of PrepareForDecode uses exactly the route
\* of its slot (tag names and indices from the root) followed by the
\* discriminant field name, in depth-first order of the slots, at any depth
\* and through any mix of structs and slices; a failed pass queried a prefix
\* of these paths.
C7_PathIsRoutePlusDiscriminant ==
    op = "BeforeUnmarshalJSON" =>
        LET q == DiscriminantQueries
            e == SlotPaths(types, root, <<>>)
        IN  /\ Len(q) <= Len(e)
            /\ \A i \in 1..Len(q) : q[i].path = e[i]
            /\ err = NoError => Len(q) = Len(e)

\* A pass over a struct in a struct with a slice and a sibling slot: slots
\* at depth three, reached after an earlier element and its nested slot.
C7_Witness ==
    /\ Traversed("BeforeUnmarshalJSON", "DeepRequest")
    /\ err = NoError
    /\ Len(DiscriminantQueries) >= 4
    /\ \E i \in 1..Len(queried) : queried[i] = Q("value", <<"data", "shapes", "1", "type">>)
    /\ \E i \in 1..Len(queried) : queried[i] = Q("value", <<"data", "shapes", "0", "inner", "type">>)
    /\ queried[Len(queried)] = Q("value", <<"data", "shape", "inner", "type">>)

(***************************************************************************)
(* C8                                                                      *)
(***************************************************************************)
\* The discriminant found at the Shape slot of a Request payload.
FoundAtShape == GjsonGet(buf, <<"shape", "type">>)

MatchingBindings ==
    {i \in 1..Len(types[ShapeKey].structValues) :
        types[ShapeKey].structValues[i] = GjsonValue(FoundAtShape.doc)}

DiscriminantMatches ==
    /\ Traversed("BeforeUnmarshalJSON", "Request")
    /\ ShapeKey \in DOMAIN types
    /\ FoundAtShape.exists
    /\ MatchingBindings # {}

\* C8: when the discriminant at the slot's path equals the value of one or
\* more bindings, the slot receives a new zero instance of the type of the
\* earliest-registered such binding, replacing what it held, and the pass
\* goes on inside that instance; a RegisterStruct call whose checks pass
\* succeeds also when its value is already bound.
C8_FirstMatchInRegistrationOrder ==
    /\ DiscriminantMatches =>
         LET e == types[ShapeKey]
             t == e.structTypes[Least(MatchingBindings)]
             slot == RootField(root, 1)
             inst == Instance(slot)
         IN  /\ ElemOf(slot).t = PointerTo(t)
             /\ inst.t = t
             /\ \A n \in 1..NumField(t) :
                   IF Kind(Fields(t)[n].type) = "interface"
                   THEN \E i \in 1..Len(queried) :
                           queried[i] = Q("value", <<"shape", Fields(t)[n].tag[1], "type">>)
                   ELSE inst.c[n] = Zero(Fields(t)[n].type)
    /\ (/\ op = "RegisterStruct"
        /\ WellFormedInterfaceMarker(arg.iFacePtr)
        /\ WellFormedStructMarker(arg.structPtr)
        /\ KeyOf(Elem(arg.iFacePtr.t)) \in DOMAIN types
        /\ HasTaggedField(Elem(arg.structPtr.t),
                          types[KeyOf(Elem(arg.iFacePtr.t))].discriminantFieldName)
        /\ Methods(Elem(arg.iFacePtr.t)) = {})
       => err = NoError

\* Two bindings of different types share the value found in the payload,
\* and the slot held a Rect before the pass.
C8_Witness ==
    /\ DiscriminantMatches
    /\ Cardinality(MatchingBindings) = 2
    /\ types[ShapeKey].structTypes[1] # types[ShapeKey].structTypes[2]
    /\ RootField(arg.ptr, 1) = NewRect
    /\ Instance(RootField(root, 1)).t = types[ShapeKey].structTypes[1]

(***************************************************************************)
(* C9                                                                      *)
(***************************************************************************)
RECURSIVE Stamped(_, _, _)
\* Every interface slot with a registered key reached from val through
\* pointers, struct fields, elements of sequences of the kinds seqKinds and
\* the instances held by such slots holds an instance whose discriminant
\* field is the value of the first binding of the instance's type.
Stamped(p, val0, seqKinds) ==
    LET val == IF Kind(val0.t) = "ptr" THEN ElemOf(val0) ELSE val0
        inner(v) ==
            (Kind(v.t) = "struct" \/ Kind(v.t) \in seqKinds)
                => \A n \in 1..Len(v.c) : Stamped(p, v.c[n], seqKinds)
    IN  IF Kind(val.t) = "interface"
        THEN KeyOf(val.t) \in DOMAIN p =>
               LET e == p[KeyOf(val.t)]
                   inst == Instance(val)
                   hits == {i \in 1..Len(e.structTypes) : e.structTypes[i] = inst.t}
               IN  /\ hits # {}
                   /\ inst.c[e.structFieldPos[Least(hits)] + 1] = e.structValues[Least(hits)]
                   /\ inner(inst)
        ELSE inner(val)

RECURSIVE SameButDiscriminants(_, _, _, _)
\* Values a and b differ at most in discriminant fields of instances held by
\* interface slots with a registered key that are reached through pointers,
\* struct fields and elements of sequences of the kinds seqKinds.
SameButDiscriminants(p, a, b, seqKinds) ==
    /\ a.t = b.t
    /\ a.s = b.s
    /\ Len(a.c) = Len(b.c)
    /\ CASE Kind(a.t) = "interface" /\ KeyOf(a.t) \in DOMAIN p /\ a.c # <<>> ->
              LET e == p[KeyOf(a.t)]
                  x == Instance(a)
                  y == Instance(b)
                  hits == {i \in 1..Len(e.structTypes) : e.structTypes[i] = x.t}
              IN  /\ ElemOf(a).t = ElemOf(b).t
                  /\ x.t = y.t
                  /\ Len(x.c) = Len(y.c)
                  /\ \A n \in 1..Len(x.c) :
                        \/ hits # {} /\ n = e.structFieldPos[Least(hits)] + 1
                        \/ SameButDiscriminants(p, x.c[n], y.c[n], seqKinds)
         [] Kind(a.t) \in {"ptr", "struct"} \cup seqKinds ->
              \A n \in 1..Len(a.c) : SameButDiscriminants(p, a.c[n], b.c[n], seqKinds)
         [] OTHER -> a = b

\* C9 (as claimed): after a successful PrepareForEncode every registered
\* slot reachable through pointers, struct fields and slice or array
\* elements carries its binding's discriminant value, and nothing else has
\* changed.
C9_SlicesAndArraysStamped ==
    (op = "BeforeMarshalJSON" /\ err = NoError) =>
        /\ Stamped(types, root, {"slice", "array"})
        /\ SameButDiscriminants(types, arg.ptr, root, {"slice", "array"})

\* C9 (amended): after a successful PrepareForEncode every interface slot
\* with a registered key that is reachable through pointers, struct fields
\* and slice elements (arrays are not entered) holds an instance whose
\* discriminant field equals the value of the first-registered binding of
\* the instance's type; no other field has changed, and arrays are
\* untouched.
C9_SlicesStamped ==
    (op = "BeforeMarshalJSON" /\ err = NoError) =>
        /\ Stamped(types, root, {"slice"})
        /\ SameButDiscriminants(types, arg.ptr, root, {"slice"})

\* A successful pass over a struct with a slice and an array of Shape: the
\* slice element has been stamped and the array is as it was.
C9_Witness ==
    /\ Traversed("BeforeMarshalJSON", "RequestWithArray")
    /\ err = NoError
    /\ Instance(RootField(root, 1).c[1]).c[1] = StrV("circle")
    /\ Instance(RootField(arg.ptr, 1).c[1]).c[1] = StrV("")
    /\ RootField(root, 2) = RootField(arg.ptr, 2)

(***************************************************************************)
(* C10                                                                     *)
(***************************************************************************)
\* C10 (as claimed): at a slot of a registered interface whose held value
\* has no binding of its type (the type is not bound, the interface has no
\* bindings, or the slot holds nothing) PrepareForEncode returns
\* UnregisteredImplementation, lenient or strict.
C10_NoBindingIsUnregisteredImplementation ==
    (/\ Traversed("BeforeMarshalJSON", "Request")
     /\ ShapeKey \in DOMAIN types
     /\ \A i \in 1..Len(types[ShapeKey].structTypes) :
           types[ShapeKey].structTypes[i] # Instance(RootField(arg.ptr, 1)).t)
    => err = "UnregisteredImplementation"

(***************************************************************************)
(* C11                                                                     *)
(***************************************************************************)
\* A decode pass over a RequestWithSlice root reached its slice node.
SliceVisited ==
    Traversed("BeforeUnmarshalJSON", "RequestWithSlice") /\ err \notin {"panic", StackOverflow}

\* Length of the array the payload holds at the slice's path, 0 without one.
PayloadLen ==
    LET r == GjsonGet(buf, <<"shapes">>)
    IN  IF r.exists /\ r.doc.j = "arr" THEN Len(r.doc.c) ELSE 0

\* The paths of the queries for the elements of the slice itself.
ElementQueries ==
    LET isElem(x) == x.q = "value" /\ Len(x.path) = 3
    IN  SelectSeq(queried, isElem)

\* C11 (as claimed): a slice the caller pre-sized keeps its length, an
\* empty one is sized to the length of the payload's array at its path, and
\* every index below that length is visited with prefix + index.
C11_PresizedLengthKept ==
    SliceVisited =>
        LET before == RootField(arg.ptr, 1)
            after == RootField(root, 1)
        IN  Len(after.c) = IF before.c # <<>> THEN Len(before.c) ELSE PayloadLen

\* C11 (amended): the slice is always replaced by a new slice of zero
\* elements whose length is the length of the payload's array at the
\* node's path (0 when the payload has no array there), whatever the slice
\* held before; the length is asked for at prefix + "#", and the indices
\* below it are visited in order with prefix + index until an element fails,
\* so a pass without error has resolved every element of a registered
\* interface.
C11_SizedFromPayload ==
    SliceVisited =>
        LET after == RootField(root, 1)
            q == ElementQueries
        IN  /\ Len(after.c) = PayloadLen
            /\ queried # <<>> /\ queried[1] = Q("length", <<"shapes", "#">>)
            /\ Len(q) <= PayloadLen
            /\ \A i \in 1..Len(q) : q[i].path = <<"shapes", Itoa(i - 1), "type">>
            /\ (err = NoError /\ ShapeKey \in DOMAIN types) =>
                  /\ Len(q) = PayloadLen
                  /\ \A i \in 1..PayloadLen : after.c[i].c # <<>>
            /\ \A i \in 1..Len(after.c) :
                  i > Len(q) => after.c[i] = Zero("Shape")

\* A slice the caller populated with two elements is decoded against a
\* payload holding one: the pass succeeds and leaves one resolved element.
C11_Witness ==
    /\ SliceVisited
    /\ err = NoError
    /\ Len(RootField(arg.ptr, 1).c) = 2
    /\ PayloadLen = 1
    /\ Len(RootField(root, 1).c) = 1
    /\ Instance(RootField(root, 1).c[1]).t = "Circle"

(***************************************************************************)
(* C12                                                                     *)
(***************************************************************************)
RECURSIVE Nodes(_)
\* The routes (child indices from the root) of the nodes of a value tree.
Nodes(v) ==
    {<<>>} \cup UNION {{<<i>> \o r : r \in Nodes(v.c[i])} : i \in 1..Len(v.c)}

RECURSIVE HasNode(_, _)
HasNode(v, r) ==
    r = <<>> \/ (r[1] <= Len(v.c) /\ HasNode(v.c[r[1]], Tail(r)))

RECURSIVE At(_, _)
At(v, r) == IF r = <<>> THEN v ELSE At(v.c[r[1]], Tail(r))

RECURSIVE Resolved(_, _)
\* Every slot with a registered key reached from val through pointers,
\* struct fields, slice elements and resolved instances holds an instance.
Resolved(p, val0) ==
    LET val == IF Kind(val0.t) = "ptr" THEN ElemOf(val0) ELSE val0
        inner(v) ==
            Kind(v.t) \in {"struct", "slice"} => \A n \in 1..Len(v.c) : Resolved(p, v.c[n])
    IN  IF Kind(val.t) = "interface"
        THEN KeyOf(val.t) \in DOMAIN p => (val.c # <<>> /\ inner(Instance(val)))
        ELSE inner(val)

\* The node at route F of the outcome `out` of a pass over `in` is where the
\* pass stopped: it is an interface slot the pass left as it found it, the
\* error is one this slot gives, every subtree that comes before it in
\* depth-first order has been processed to the end (`done`), and every
\* subtree that comes after it is what it was - its value in `in`, or the
\* zero value when it lies in a container that a node on the way to F
\* created (kinds freshKinds).
StoppedAt(in, out, F, freshKinds, slotErrors, done(_)) ==
    LET pre(n) == SubSeq(F, 1, n)
        fresh(n) == \E m \in 0..n : Kind(At(out, pre(m)).t) \in freshKinds
        asBefore(n, i) ==
            LET x == At(out, pre(n)).c[i]
            IN  IF fresh(n) THEN x = Zero(x.t)
                ELSE HasNode(in, Append(pre(n), i)) /\ x = At(in, Append(pre(n), i))
    IN  /\ F # <<>>
        /\ Kind(At(out, F).t) = "interface"
        /\ asBefore(Len(F) - 1, F[Len(F)])
        /\ IF KeyOf(At(out, F).t) \in DOMAIN types
           THEN err \in slotErrors
           ELSE strict /\ err = "UnregisteredInterface"
        /\ \A n \in 0..(Len(F) - 1) :
              /\ \A i \in 1..(F[n + 1] - 1) : done(At(out, pre(n)).c[i])
              /\ \A i \in (F[n + 1] + 1)..Len(At(out, pre(n)).c) : asBefore(n, i)

\* C12: when BeforeMarshalJSON or BeforeUnmarshalJSON fails, it stopped at
\* one interface slot: the error is that slot's, everything before the slot
\* in depth-first order has been processed, and nothing after it - later
\* fields, later elements, at any enclosing level - has been visited or
\* changed.
C12_FirstErrorAborts ==
    /\ (op = "BeforeMarshalJSON" /\ err # NoError) =>
         \E F \in Nodes(root) :
            LET done(x) == Stamped(types, x, {"slice"})
            IN  StoppedAt(arg.ptr, root, F, {},
                          {"UnregisteredImplementation", "panic"}, done)
    /\ (op = "BeforeUnmarshalJSON" /\ err # NoError) =>
         /\ \E F \in Nodes(root) :
               LET done(x) == Resolved(types, x)
               IN  StoppedAt(arg.ptr, root, F, {"interface", "slice"},
                             {"UnresolvedDiscriminant", "panic", StackOverflow}, done)
         /\ err = "UnresolvedDiscriminant" =>
               /\ queried # <<>>
               /\ queried[Len(queried)].q = "value"

\* BeforeMarshalJSON fails at the first element of a slice, a Rect that is
\* not bound, and the second element, a bound Circle, keeps its stale
\* discriminant.
C12_Witness ==
    /\ Traversed("BeforeMarshalJSON", "RequestWithSlice")
    /\ err = "UnregisteredImplementation"
    /\ Instance(RootField(arg.ptr, 1).c[1]).t = "Rect"
    /\ FirstTypeMatch(types[ShapeKey], "Circle") # 0
    /\ types[ShapeKey].structValues[FirstTypeMatch(types[ShapeKey], "Circle")] # StrV("")
    /\ Instance(RootField(root, 1).c[2]) = Circle("", "10")

(***************************************************************************)
(* C13                                                                     *)
(***************************************************************************)
\* C13 (as claimed): for every registry, value tree and payload - concrete
\* types holding a slot of their own interface type included -
\* BeforeMarshalJSON and BeforeUnmarshalJSON terminate: no pass recurses
\* until the stack is exhausted.
C13_Terminates ==
    op \in {"BeforeMarshalJSON", "BeforeUnmarshalJSON"} => err # StackOverflow

(***************************************************************************)
(* C14                                                                     *)
(***************************************************************************)
\* The four per-binding lists of a registration have one length.
ListsAligned(e) ==
    /\ Len(e.structValues) = Len(e.structCreators)
    /\ Len(e.structValues) = Len(e.structTypes)
    /\ Len(e.structValues) = Len(e.structFieldPos)

\* The step of a call: how the registry after it relates to the registry
\* before it, where `entryOf(it)` are the keys of the registrations that a
\* RegisterStruct call naming the abstract type `it` may extend.
RegistryStep(entryOf(_)) ==
    LET named == Elem(arg'.iFacePtr.t)
        st == Elem(arg'.structPtr.t)
    IN  /\ \A k \in DOMAIN types' : ListsAligned(types'[k])
        /\ CASE op' = "RegisterStruct" /\ err' = NoError ->
                   \E k \in entryOf(named) :
                      types' = [types EXCEPT ![k] =
                                   AppendBinding(@, arg'.value, st,
                                       FindFieldPos(st, types[k].discriminantFieldName))]
             [] op' = "RegisterInterface" /\ err' = NoError ->
                   /\ KeyOf(named) \notin DOMAIN types
                   /\ types' = types @@ (KeyOf(named) :> polyType(named, arg'.name))
             [] OTHER -> types' = types

\* The registrations of the abstract type `it` itself.
RegistrationsOf(it) == {k \in DOMAIN types : types[k].fieldType = it}

\* C14 (as claimed): the registry changes only through successful
\* registration calls; a successful RegisterStruct appends one binding
\* (value, factory, type and field position together) to the end of the
\* list of the interface it names and changes nothing else; failed
\* registration calls and both traversals leave the registry as it was.
C14_RegistryFrame == [][RegistryStep(RegistrationsOf)]_vars

\* The registration stored under the key of the abstract type `it`, which
\* may be the registration of another type of the same package and name.
RegistrationsUnderKeyOf(it) == {k \in DOMAIN types : k = KeyOf(it)}

\* C14, with "the interface it names" taken as "the registration stored
\* under the named interface's key": the frame that holds apart from the
\* shared keys of C5.
C14_FrameByKey == [][RegistryStep(RegistrationsUnderKeyOf)]_vars

====
